---- MODULE Spec2Model ----
(***************************************************************************)
(* CreateAgent.generate_prompt (src/agents/zen/create_agent.py): the        *)
(* rule-based C.R.E.A.T.E. prompt generator, as a state machine.  One run   *)
(* of generate_prompt goes START -> VALIDATE -> BUILD -> ASSEMBLE ->        *)
(* EVALUATE -> RETURN -> DONE, or ends in ERROR through the validation      *)
(* error or through the except clause.  Strings are TLA+ strings, handled   *)
(* character by character where Python does (lower, strip, title, in).      *)
(***************************************************************************)
EXTENDS Integers, Sequences, FiniteSets, TLC

(***************************************************************************)
(* Bounds of the model.                                                     *)
(***************************************************************************)
\* The longest query of the classification sweep, in vocabulary phrases.
MaxWords == 2
\* The longest improvement_recommendations list the evaluator returns.
MaxRecommendations == 6

(***************************************************************************)
(* Python's str methods.                                                    *)
(***************************************************************************)
ascii_uppercase == "ABCDEFGHIJKLMNOPQRSTUVWXYZ"
ascii_lowercase == "abcdefghijklmnopqrstuvwxyz"

CharAt(s, i) == SubSeq(s, i, i)

\* The position of character c in alphabet, 0 when it is not there.
IndexIn(c, alphabet) ==
    LET hits == {i \in 1..Len(alphabet) : CharAt(alphabet, i) = c}
    IN  IF hits = {} THEN 0 ELSE CHOOSE i \in hits : TRUE

Letters(alphabet) == {CharAt(alphabet, i) : i \in 1..Len(alphabet)}

\* Each upper-case letter's lower-case letter, and the reverse.
to_lower == [c \in Letters(ascii_uppercase) |-> CharAt(ascii_lowercase, IndexIn(c, ascii_uppercase))]
to_upper == [c \in Letters(ascii_lowercase) |-> CharAt(ascii_uppercase, IndexIn(c, ascii_lowercase))]

IsAlpha(c) == c \in DOMAIN to_lower \/ c \in DOMAIN to_upper

LowerChar(c) == IF c \in DOMAIN to_lower THEN to_lower[c] ELSE c

UpperChar(c) == IF c \in DOMAIN to_upper THEN to_upper[c] ELSE c

\* str.lower()
RECURSIVE lower(_)
lower(s) == IF s = "" THEN "" ELSE LowerChar(Head(s)) \o lower(Tail(s))

\* str.title(): a letter that follows a non-letter is upper-cased, every
\* other letter is lower-cased.
RECURSIVE TitleFrom(_, _)
TitleFrom(s, prevAlpha) ==
    IF s = "" THEN ""
    ELSE LET c == Head(s)
         IN  (IF prevAlpha THEN LowerChar(c) ELSE UpperChar(c))
                 \o TitleFrom(Tail(s), IsAlpha(c))

title(s) == TitleFrom(s, FALSE)

IsSpace(c) == c \in {" ", "\n", "\t", "\r"}

\* str.strip(): leading and trailing whitespace removed.
strip(s) ==
    LET keep == {i \in 1..Len(s) : ~IsSpace(CharAt(s, i))}
        lo   == CHOOSE i \in keep : \A j \in keep : i <= j
        hi   == CHOOSE i \in keep : \A j \in keep : j <= i
    IN  IF keep = {} THEN "" ELSE SubSeq(s, lo, hi)

\* Python's `term in s` on strings: term occurs in s as a substring.
In(term, s) ==
    \E i \in 1..(Len(s) - Len(term) + 1) : SubSeq(s, i, i + Len(term) - 1) = term

\* any(term in s for term in terms)
AnyIn(terms, s) == \E term \in terms : In(term, s)

\* sep.join(parts)
RECURSIVE join(_, _)
join(sep, parts) ==
    IF parts = <<>> THEN ""
    ELSE IF Len(parts) = 1 THEN parts[1]
    ELSE parts[1] \o sep \o join(sep, Tail(parts))

(***************************************************************************)
(* Python values: generate_prompt takes dict[str, Any], so a value carries  *)
(* its type.  A raised exception travels as a value of type "raise".        *)
(***************************************************************************)
PyStr(s)   == [type |-> "str", val |-> s]
PyNone     == [type |-> "NoneType", val |-> ""]
PyInt(n)   == [type |-> "int", val |-> n]
PyDict(f)  == [type |-> "dict", val |-> f]
Raise(msg) == [type |-> "raise", val |-> msg]

EmptyMap == [k \in {} |-> PyNone]
EmptyDict == PyDict(EmptyMap)

IsStr(v)    == v.type = "str"
IsDict(v)   == v.type = "dict"
IsRaise(v)  == v.type = "raise"

\* bool(v)
Truthy(v) ==
    CASE v.type = "str"      -> v.val # ""
      [] v.type = "NoneType" -> FALSE
      [] v.type = "int"      -> v.val # 0
      [] v.type = "dict"     -> DOMAIN v.val # {}
      [] OTHER               -> TRUE

\* a or b
Or(a, b) == IF Truthy(a) THEN a ELSE b

\* str(AttributeError) for obj.attr on an object without that attribute
AttributeError(v, attr) ==
    Raise("'" \o v.type \o "' object has no attribute '" \o attr \o "'")

\* d.get(key, default): d must be a dict
get(d, key, default) ==
    IF ~IsDict(d) THEN AttributeError(d, "get")
    ELSE IF key \in DOMAIN d.val THEN d.val[key] ELSE default


(***************************************************************************)
(* The classifier's helpers (lines 422-645).  query, query_type,            *)
(* reasoning_depth and complexity are strings here; the builders below      *)
(* take them out of the context.                                            *)
(***************************************************************************)
role_mapping ==
    [security           |-> "cybersecurity architect",
     technical_analysis |-> "senior systems analyst",
     analysis_request   |-> "strategic business analyst",
     documentation      |-> "technical documentation specialist",
     create_enhancement |-> "prompt engineering specialist",
     implementation     |-> "senior solution architect",
     general_query      |-> "subject matter expert"]

\* mapping.get(key, default) on a table of strings
Lookup(mapping, key, default) ==
    IF key \in DOMAIN mapping THEN mapping[key] ELSE default

\* Mutant of _determine_role_from_query_type: the comparison keywords are
\* tested first.
_determine_role_comparison_first(query_type, query) ==
    LET query_lower == lower(query)
    IN  IF AnyIn({"compare", "vs", "versus", "difference"}, query_lower)
        THEN "technology consultant"
        ELSE IF AnyIn({"security", "threat", "vulnerability", "cyber", "attack", "defense"}, query_lower)
        THEN IF In("network", query_lower) \/ In("infrastructure", query_lower)
             THEN "network security specialist"
             ELSE IF In("cloud", query_lower)
             THEN "cloud security architect"
             ELSE "cybersecurity architect"
        ELSE IF AnyIn({"api", "microservices", "docker", "kubernetes", "ci/cd", "devops"}, query_lower)
        THEN "senior software architect"
        ELSE IF AnyIn({"data", "analytics", "power bi", "sql", "database"}, query_lower)
        THEN "senior data architect"
        ELSE IF AnyIn({"how to", "implement", "setup", "configure"}, query_lower)
        THEN "technical implementation specialist"
        ELSE IF AnyIn({"startup", "business", "strategy", "decision", "recommend"}, query_lower)
        THEN "senior technology strategist"
        ELSE IF AnyIn({"machine learning", "ai", "artificial intelligence", "model"}, query_lower)
        THEN "machine learning engineer"
        ELSE Lookup(role_mapping, query_type, "senior consultant")

_determine_role_from_query_type(query_type, query) ==
    LET query_lower == lower(query)
    IN  IF AnyIn({"security", "threat", "vulnerability", "cyber", "attack", "defense"}, query_lower)
        THEN IF In("network", query_lower) \/ In("infrastructure", query_lower)
             THEN "network security specialist"
             ELSE IF In("cloud", query_lower)
             THEN "cloud security architect"
             ELSE "cybersecurity architect"
        ELSE IF AnyIn({"api", "microservices", "docker", "kubernetes", "ci/cd", "devops"}, query_lower)
        THEN "senior software architect"
        ELSE IF AnyIn({"data", "analytics", "power bi", "sql", "database"}, query_lower)
        THEN "senior data architect"
        ELSE IF AnyIn({"how to", "implement", "setup", "configure"}, query_lower)
        THEN "technical implementation specialist"
        ELSE IF AnyIn({"compare", "vs", "versus", "difference"}, query_lower)
        THEN "technology consultant"
        ELSE IF AnyIn({"startup", "business", "strategy", "decision", "recommend"}, query_lower)
        THEN "senior technology strategist"
        ELSE IF AnyIn({"machine learning", "ai", "artificial intelligence", "model"}, query_lower)
        THEN "machine learning engineer"
        ELSE Lookup(role_mapping, query_type, "senior consultant")

personas ==
    [security           |-> "with proven experience in cybersecurity domains",
     technical_analysis |-> "specializing in system optimization and architecture",
     analysis_request   |-> "focused on evidence-based strategic analysis",
     documentation      |-> "known for creating clear, actionable guidance",
     implementation     |-> "with hands-on experience in complex deployments",
     general_query      |-> "with comprehensive knowledge across domains"]

\* Mutant of _generate_persona_clause: no branch for "consultant".
_generate_persona_clause_no_consultant(query_type, role) ==
    LET role_lower == lower(role)
    IN  IF In("security", role_lower)
        THEN "with 15+ years defending critical infrastructure systems"
        ELSE IF In("architect", role_lower)
        THEN "specializing in scalable enterprise system design"
        ELSE IF In("engineer", role_lower)
        THEN "experienced in production-grade system implementation"
        ELSE IF In("analyst", role_lower)
        THEN "focused on data-driven decision making"
        ELSE IF In("specialist", role_lower)
        THEN "with deep domain expertise and practical experience"
        ELSE IF In("strategist", role_lower)
        THEN "experienced in guiding technical business decisions"
        ELSE Lookup(personas, query_type, "with deep expertise in the relevant field")

_generate_persona_clause(query_type, role) ==
    LET role_lower == lower(role)
    IN  IF In("security", role_lower)
        THEN "with 15+ years defending critical infrastructure systems"
        ELSE IF In("architect", role_lower)
        THEN "specializing in scalable enterprise system design"
        ELSE IF In("consultant", role_lower)
        THEN "with proven expertise in technology strategy"
        ELSE IF In("engineer", role_lower)
        THEN "experienced in production-grade system implementation"
        ELSE IF In("analyst", role_lower)
        THEN "focused on data-driven decision making"
        ELSE IF In("specialist", role_lower)
        THEN "with deep domain expertise and practical experience"
        ELSE IF In("strategist", role_lower)
        THEN "experienced in guiding technical business decisions"
        ELSE Lookup(personas, query_type, "with deep expertise in the relevant field")

\* Mutant of _determine_rigor_level: the rule of the Evaluation section's
\* label (lines 398-403).
_determine_rigor_level_inline(reasoning_depth, complexity) ==
    IF reasoning_depth = "comprehensive" \/ complexity = "complex"
    THEN "ADVANCED"
    ELSE IF reasoning_depth = "intermediate"
    THEN "STANDARD"
    ELSE "BASIC"

\* RigorLevel of src.core.anchor_qr_evaluator, by member name.
_determine_rigor_level(reasoning_depth, complexity) ==
    IF reasoning_depth = "comprehensive" \/ complexity = "complex"
    THEN "ADVANCED"
    ELSE IF reasoning_depth = "basic" /\ complexity = "simple"
    THEN "BASIC"
    ELSE "STANDARD"

\* Mutant of background_elements: the patterns are an if/elif chain, so one
\* pattern sentence at most is appended.
background_elements_exclusive(query, complexity) ==
    LET query_lower == lower(query)
    IN  (IF complexity = "complex"
         THEN <<"This is a complex topic requiring comprehensive multi-faceted analysis with consideration of various perspectives and implications">>
         ELSE IF complexity = "intermediate"
         THEN <<"This topic requires structured analysis with attention to key factors and relationships">>
         ELSE <<>>)
        \o (IF AnyIn({"compare", "vs", "versus", "difference"}, query_lower)
            THEN <<"Multiple options or approaches require systematic comparison to support informed decision-making">>
            ELSE IF AnyIn({"how to", "implement", "setup", "configure"}, query_lower)
            THEN <<"The user needs step-by-step guidance for practical implementation">>
            ELSE IF AnyIn({"security", "threat", "vulnerability"}, query_lower)
            THEN <<"Security considerations and risk factors must be thoroughly addressed">>
            ELSE IF AnyIn({"startup", "business", "strategy"}, query_lower)
            THEN <<"Business context and strategic implications are critical to the analysis">>
            ELSE IF AnyIn({"machine learning", "ai", "model"}, query_lower)
            THEN <<"Technical accuracy and practical applicability are essential for AI/ML topics">>
            ELSE IF In("microservices", query_lower) \/ In("architecture", query_lower)
            THEN <<"Architectural decisions have long-term implications for scalability and maintainability">>
            ELSE IF In("ci/cd", query_lower) \/ In("devops", query_lower)
            THEN <<"Implementation must consider development workflow and operational requirements">>
            ELSE <<>>)

\* context_elements, in the order the ifs append to it.
background_elements(query, complexity) ==
    LET query_lower == lower(query)
        When(cond, sentence) == IF cond THEN <<sentence>> ELSE <<>>
    IN  (IF complexity = "complex"
         THEN <<"This is a complex topic requiring comprehensive multi-faceted analysis with consideration of various perspectives and implications">>
         ELSE IF complexity = "intermediate"
         THEN <<"This topic requires structured analysis with attention to key factors and relationships">>
         ELSE <<>>)
        \o When(AnyIn({"compare", "vs", "versus", "difference"}, query_lower),
                "Multiple options or approaches require systematic comparison to support informed decision-making")
        \o When(AnyIn({"how to", "implement", "setup", "configure"}, query_lower),
                "The user needs step-by-step guidance for practical implementation")
        \o When(AnyIn({"security", "threat", "vulnerability"}, query_lower),
                "Security considerations and risk factors must be thoroughly addressed")
        \o When(AnyIn({"startup", "business", "strategy"}, query_lower),
                "Business context and strategic implications are critical to the analysis")
        \o When(AnyIn({"machine learning", "ai", "model"}, query_lower),
                "Technical accuracy and practical applicability are essential for AI/ML topics")
        \o When(In("microservices", query_lower) \/ In("architecture", query_lower),
                "Architectural decisions have long-term implications for scalability and maintainability")
        \o When(In("ci/cd", query_lower) \/ In("devops", query_lower),
                "Implementation must consider development workflow and operational requirements")

_extract_background_context(query, complexity) ==
    LET matched == background_elements(query, complexity)
        context_elements ==
            IF Len(matched) = 0
            THEN <<"The user seeks authoritative information with practical applicability">>
            ELSE matched
    IN  join(". ", context_elements) \o "."

_define_response_goal(query) ==
    LET query_lower == lower(query)
    IN  IF In("how to", query_lower)
        THEN "Provide step-by-step guidance that enables successful implementation"
        ELSE IF AnyIn({"compare", "vs", "versus", "difference"}, query_lower)
        THEN "Deliver clear comparisons that support informed decision-making"
        ELSE IF In("explain", query_lower)
        THEN "Provide comprehensive understanding with practical context"
        ELSE "Deliver actionable insights that directly address the user's needs"

\* tier_mapping, keyed by (reasoning_depth, complexity)
tier_mapping ==
    [p \in {<<"basic", "simple">>, <<"basic", "intermediate">>,
            <<"intermediate", "simple">>, <<"intermediate", "intermediate">>,
            <<"comprehensive", "simple">>, <<"comprehensive", "intermediate">>,
            <<"comprehensive", "complex">>} |->
        CASE p = <<"basic", "simple">>               -> "Tier 3: Summary (200-400 words) - Concise overview"
          [] p = <<"basic", "intermediate">>         -> "Tier 4: Overview (400-900 words) - Analyst briefing"
          [] p = <<"intermediate", "simple">>        -> "Tier 4: Overview (400-900 words) - Analyst briefing"
          [] p = <<"intermediate", "intermediate">>  -> "Tier 6: In-Depth Analysis (2000-5000 words) - Professional memo"
          [] p = <<"comprehensive", "simple">>       -> "Tier 6: In-Depth Analysis (2000-5000 words) - Professional memo"
          [] p = <<"comprehensive", "intermediate">> -> "Tier 8: Comprehensive Study (8000-15000 words) - Research report"
          [] p = <<"comprehensive", "complex">>      -> "Tier 9: Expert Analysis (15000-30000 words) - Detailed study"]

\* Mutant of _select_appropriate_tier: the table lists (intermediate, complex).
_select_appropriate_tier_dense(reasoning_depth, complexity) ==
    IF <<reasoning_depth, complexity>> = <<"intermediate", "complex">>
    THEN "Tier 8: Comprehensive Study (8000-15000 words) - Research report"
    ELSE Lookup(tier_mapping, <<reasoning_depth, complexity>>,
                "Tier 5: Detailed Response (900-2000 words) - Professional analysis")

_select_appropriate_tier(reasoning_depth, complexity) ==
    Lookup(tier_mapping, <<reasoning_depth, complexity>>,
           "Tier 5: Detailed Response (900-2000 words) - Professional analysis")

_extract_action_verbs(query) ==
    LET query_lower == lower(query)
    IN  IF In("analyze", query_lower) \/ In("analysis", query_lower)
        THEN "Analyze, evaluate, and synthesize"
        ELSE IF In("compare", query_lower)
        THEN "Compare, contrast, and recommend"
        ELSE IF In("explain", query_lower)
        THEN "Explain, clarify, and illustrate"
        ELSE IF In("implement", query_lower) \/ In("how to", query_lower)
        THEN "Guide, implement, and optimize"
        ELSE "Examine, assess, and advise"

\* has_complexity: query_analysis.get("complexity") is not None
_determine_output_format(query, has_complexity, complexity) ==
    LET query_lower == lower(query)
    IN  IF In("step", query_lower) \/ In("how to", query_lower)
        THEN "Structured guide with clear steps and checkpoints"
        ELSE IF In("comparison", query_lower) \/ In("vs", query_lower)
        THEN "Comparative analysis with side-by-side evaluation"
        ELSE IF has_complexity /\ complexity = "complex"
        THEN "Comprehensive report with executive summary and detailed sections"
        ELSE "Professional analysis with clear structure and actionable insights"

_select_analytical_frameworks(query, query_type) ==
    LET query_lower == lower(query)
        matched ==
            IF query_type = "security" \/ In("security", query_lower)
            THEN <<"- **STRIDE Analysis**: Systematic threat modeling",
                   "- **Defense-in-Depth**: Layered security approach">>
            ELSE IF In("comparison", query_lower) \/ In("vs", query_lower)
            THEN <<"- **Comparative Analysis**: Systematic side-by-side evaluation",
                   "- **Decision Matrix**: Weighted criteria assessment">>
            ELSE IF query_type = "analysis_request"
            THEN <<"- **SWOT Analysis**: Strengths, Weaknesses, Opportunities, Threats",
                   "- **Root Cause Analysis**: Systematic problem investigation">>
            ELSE <<>>
        frameworks ==
            IF Len(matched) = 0
            THEN <<"- **Structured Analysis**: Systematic examination of key components",
                   "- **Evidence-Based Reasoning**: Claims supported by credible sources">>
            ELSE matched
    IN  join("\n", frameworks)

_determine_evidence_requirements(complexity) ==
    IF complexity = "complex"
    THEN
        "- Cite authoritative sources for all factual claims\n"
        \o "- Include recent examples or case studies where relevant  \n"
        \o "- Acknowledge limitations and uncertainties appropriately\n"
        \o "- Reference industry standards or best practices\n"
        \o "- Use [ExpertJudgment] tags for professional opinions requiring domain expertise"
    ELSE
        "- Support key claims with evidence or reasoning\n"
        \o "- Include relevant examples to illustrate concepts\n"
        \o "- Acknowledge areas of uncertainty with appropriate hedging\n"
        \o "- Reference credible sources where factual accuracy is critical"

\* Mutant of inline_rigor_level: the label follows reasoning_depth alone.
inline_rigor_level_by_depth(reasoning_depth, complexity) ==
    IF reasoning_depth = "comprehensive"
    THEN "Advanced"
    ELSE IF reasoning_depth = "intermediate"
    THEN "Standard"
    ELSE "Basic"

\* Mutant of inline_rigor_level: the label follows the rule of
\* _determine_rigor_level.
inline_rigor_level_as_selector(reasoning_depth, complexity) ==
    IF reasoning_depth = "comprehensive" \/ complexity = "complex"
    THEN "Advanced"
    ELSE IF reasoning_depth = "basic" /\ complexity = "simple"
    THEN "Basic"
    ELSE "Standard"

\* The rigor label _build_evaluation_component computes inline (lines 397-403).
inline_rigor_level(reasoning_depth, complexity) ==
    IF reasoning_depth = "comprehensive" \/ complexity = "complex"
    THEN "Advanced"
    ELSE IF reasoning_depth = "intermediate"
    THEN "Standard"
    ELSE "Basic"

\* tone of _build_tone_format_component (line 377): a Python value, since
\* preferences may hold anything under tone_preference.
tone_of(preferences) ==
    IF Truthy(preferences)
    THEN get(preferences, "tone_preference", PyStr("professional"))
    ELSE PyStr("professional")


(***************************************************************************)
(* The six section builders (lines 272-420).  query is a string (VALIDATE   *)
(* has called strip on it); query_analysis and preferences are Python       *)
(* values.  A builder returns PyStr(text), or Raise(message) where the      *)
(* Python raises.                                                           *)
(***************************************************************************)
query_type_of(query_analysis) == get(query_analysis, "query_type", PyStr("general")).val
complexity_of(query_analysis) == get(query_analysis, "complexity", PyStr("intermediate")).val

_build_context_component(query, query_analysis, preferences) ==
    IF ~IsDict(query_analysis) THEN AttributeError(query_analysis, "get")
    ELSE
    LET query_type == query_type_of(query_analysis)
        role       == _determine_role_from_query_type(query_type, query)
        persona    == _generate_persona_clause(query_type, role)
        background == _extract_background_context(query, complexity_of(query_analysis))
        goal       == _define_response_goal(query)
        audience   == complexity_of(query_analysis)
    IN  PyStr(
        "**Role**: You are a "
        \o role
        \o ", "
        \o persona
        \o "\n"
        \o "\n"
        \o "**Background**: "
        \o background
        \o "\n"
        \o "\n"
        \o "**Goal**: "
        \o goal
        \o "\n"
        \o "\n"
        \o "**Audience**: The response should be appropriate for "
        \o audience
        \o "-level understanding."
    )

_build_request_component(query, reasoning_depth, query_analysis) ==
    IF ~IsDict(query_analysis) THEN AttributeError(query_analysis, "get")
    ELSE
    LET tier_info     == _select_appropriate_tier(reasoning_depth, complexity_of(query_analysis))
        action_verbs  == _extract_action_verbs(query)
        output_format == _determine_output_format(query,
                             "complexity" \in DOMAIN query_analysis.val,
                             complexity_of(query_analysis))
    IN  PyStr(
        "**Primary Task**: "
        \o query
        \o "\n"
        \o "\n"
        \o "**Deliverable Requirements**:\n"
        \o "- Format: "
        \o output_format
        \o "\n"
        \o "- Depth: "
        \o tier_info
        \o "\n"
        \o "- Action Focus: "
        \o action_verbs
        \o "\n"
        \o "- Scope: Comprehensive analysis addressing all aspects of the query\n"
        \o "- Quality Standard: Professional-grade output suitable for business decision-making\n"
        \o "\n"
        \o "**Success Criteria**: Response must be actionable, well-structured, and provide clear value to the user."
    )

_build_examples_component(query, query_analysis) ==
    IF ~IsDict(query_analysis) THEN AttributeError(query_analysis, "get")
    ELSE IF In("comparison", lower(query)) \/ In("vs", lower(query))
    THEN PyStr(
        "### Example Structure ###\n"
        \o "**Aspect 1 Comparison**:\n"
        \o "- Option A: [Specific characteristic with evidence]\n"
        \o "- Option B: [Contrasting characteristic with evidence]\n"
        \o "- Key Differentiator: [Critical distinction that influences decisions]\n"
        \o "\n"
        \o "### Example Quality Standard ###\n"
        \o "Each comparison point should include:\n"
        \o "- Specific, measurable differences\n"
        \o "- Relevant examples or case studies\n"
        \o "- Clear implications for the user's context"
    )
    ELSE PyStr(
        "### Example Response Pattern ###\n"
        \o "**Analysis Framework**:\n"
        \o "1. Core Concept Definition: [Clear, precise definition]\n"
        \o "2. Key Components: [Essential elements with explanations]\n"
        \o "3. Practical Applications: [Real-world examples and use cases]\n"
        \o "4. Implementation Considerations: [Actionable guidance]\n"
        \o "\n"
        \o "**Quality Indicators**: Specific details, credible sources, actionable insights"
    )

_build_augmentations_component(query, query_analysis) ==
    IF ~IsDict(query_analysis) THEN AttributeError(query_analysis, "get")
    ELSE
    LET frameworks == _select_analytical_frameworks(query, query_type_of(query_analysis))
        evidence_requirements == _determine_evidence_requirements(complexity_of(query_analysis))
    IN  PyStr(
        "**Analytical Frameworks to Apply**:\n"
        \o frameworks
        \o "\n"
        \o "\n"
        \o "**Evidence Requirements**:\n"
        \o evidence_requirements
        \o "\n"
        \o "\n"
        \o "**Advanced Reasoning**: Apply systematic analysis with clear logical progression. For complex topics, use step-by-step reasoning to build conclusions from evidence."
    )

_build_tone_format_component(query, preferences) ==
    LET tone_value == tone_of(preferences)
        tone       == tone_value.val
    IN  IF IsRaise(tone_value) THEN tone_value
        ELSE IF ~IsStr(tone_value) THEN AttributeError(tone_value, "title")
        ELSE PyStr(
        "**Tone**: "
        \o title(tone)
        \o " and accessible, with authoritative expertise\n"
        \o "\n"
        \o "**Writing Standards**:\n"
        \o "- Moderate hedge density (5-10% of sentences) to acknowledge appropriate uncertainties\n"
        \o "- High lexical diversity (varied vocabulary, no word appearing >2% of tokens)\n"
        \o "- Sentence variability (average 17-22 words, with mix of short and long sentences)\n"
        \o "- Include at least one rhetorical question to engage critical thinking\n"
        \o "- Use narrative prose over bullet lists unless specifically requested\n"
        \o "\n"
        \o "**Structure**: Clear heading hierarchy with logical flow from overview to specific details\n"
        \o "\n"
        \o "**Citation Style**: Include sources and evidence attribution where claims require support"
    )

_build_evaluation_component(reasoning_depth, query_analysis) ==
    IF ~IsDict(query_analysis) THEN AttributeError(query_analysis, "get")
    ELSE
    LET rigor_level == inline_rigor_level(reasoning_depth, complexity_of(query_analysis))
    IN  PyStr(
        "**Quality Assurance Protocol** (ANCHOR-QR-8, "
        \o rigor_level
        \o " Rigor):\n"
        \o "\n"
        \o "**Success Criteria**:\n"
        \o "- Does the response fully address the original query?\n"
        \o "- Are all claims supported by evidence or clearly marked as expert judgment?\n"
        \o "- Is the analysis logically consistent throughout?\n"
        \o "- Does the response provide actionable insights?\n"
        \o "- Is the tone appropriate for the intended audience?\n"
        \o "\n"
        \o "**Verification Requirements**:\n"
        \o "- Check for internal contradictions\n"
        \o "- Verify factual accuracy of key claims\n"
        \o "- Ensure recommendations are feasible and specific\n"
        \o "- Confirm appropriate uncertainty acknowledgment\n"
        \o "\n"
        \o "**Quality Standards**: Professional-grade accuracy, comprehensive coverage, clear practical value"
    )

\* The f-string of lines 179-203.
assemble(context_component, request_component, examples_component, augmentations_component, tone_format_component, evaluation_component) ==
        "# C.R.E.A.T.E. Framework Enhanced Prompt\n"
        \o "\n"
        \o "## C - Context (Role, Background, Goal)\n"
        \o context_component
        \o "\n"
        \o "\n"
        \o "## R - Request (Task, Format, Depth, Action Verbs)\n"
        \o request_component
        \o "\n"
        \o "\n"
        \o "## E - Examples (Few-Shot Prompting)\n"
        \o examples_component
        \o "\n"
        \o "\n"
        \o "## A - Augmentations (Frameworks, Evidence, Reasoning)\n"
        \o augmentations_component
        \o "\n"
        \o "\n"
        \o "## T - Tone & Format (Voice, Style, Structure)\n"
        \o tone_format_component
        \o "\n"
        \o "\n"
        \o "## E - Evaluation (Quality Assurance, Verification)\n"
        \o evaluation_component
        \o "\n"
        \o "\n"
        \o "---\n"
        \o "\n"
        \o "**Instructions for Use**: Copy this entire C.R.E.A.T.E. framework prompt and provide it to your AI assistant to receive a comprehensive, well-structured response that meets professional standards.\n"
        \o "\n"
        \o "*This CREATE framework prompt was generated by PromptCraft to ensure high-quality, reliable AI outputs with minimal hallucinations and appropriate sourcing for independent validation.*"

_generate_error_prompt(error_message) ==
        "# Prompt Generation Error\n"
        \o "\n"
        \o "An error occurred during CREATE framework prompt generation: "
        \o error_message
        \o "\n"
        \o "\n"
        \o "Please try again with a clearer query, or contact support if the issue persists.\n"
        \o "\n"
        \o "## Fallback Prompt Structure\n"
        \o "\n"
        \o "**Context**: Please act as a helpful assistant\n"
        \o "**Request**: "
        \o error_message
        \o "\n"
        \o "**Guidance**: Provide a clear, accurate response based on the query provided\n"


(***************************************************************************)
(* The external evaluator, ANCHORQREvaluator.evaluate_prompt(document,      *)
(* context, rigor_level): it returns an EvaluationResult, returns an object *)
(* that is no EvaluationResult, or raises.                                  *)
(***************************************************************************)
Recommendations(n) == [i \in 1..n |-> "recommendation"]

EvaluationResult(rigor, recommendations) ==
    [type |-> "EvaluationResult",
     val  |-> [overall_score               |-> 87,
               overall_confidence          |-> 90,
               compliance_score            |-> 75,
               rigor_level                 |-> rigor,
               is_passing                  |-> TRUE,
               needs_revision              |-> FALSE,
               all_flags                   |-> <<"low_confidence">>,
               critical_issues             |-> <<>>,
               improvement_recommendations |-> recommendations,
               step_results                |-> [anchor |-> [score |-> 80]]]]

EvaluatorErrors == {"scoring backend unavailable"}

EvaluatorOutcomes(rigor) ==
    {[kind |-> "return", value |-> EvaluationResult(rigor, Recommendations(n))] :
        n \in {0, MaxRecommendations}}
    \cup {[kind |-> "return", value |-> PyNone]}
    \cup {[kind |-> "raise", value |-> Raise(msg)] : msg \in EvaluatorErrors}

\* improvement_recommendations[:5]
TopRecommendations == 5

Take(seq, n) == SubSeq(seq, 1, IF Len(seq) < n THEN Len(seq) ELSE n)

\* Mutant of project: the mapping carries an error key on success too.
project_with_error_key(evaluation) ==
    IF evaluation.type # "EvaluationResult"
    THEN AttributeError(evaluation, "overall_score")
    ELSE PyDict([overall_score |-> evaluation.val.overall_score,
                 error         |-> PyNone])

\* The dict built at lines 217-231 from the evaluator's return value; the
\* attribute reads raise on an object that is no EvaluationResult.
project(evaluation) ==
    IF evaluation.type # "EvaluationResult"
    THEN AttributeError(evaluation, "overall_score")
    ELSE LET e == evaluation.val
         IN  PyDict([overall_score      |-> e.overall_score,
                     overall_confidence |-> e.overall_confidence,
                     compliance_score   |-> e.compliance_score,
                     rigor_level        |-> e.rigor_level,
                     is_passing         |-> e.is_passing,
                     needs_revision     |-> e.needs_revision,
                     flags              |-> e.all_flags,
                     critical_issues    |-> e.critical_issues,
                     recommendations    |-> Take(e.improvement_recommendations, TopRecommendations),
                     step_scores        |-> [s \in DOMAIN e.step_results |-> e.step_results[s].score]])

(***************************************************************************)
(* The inputs of one call.                                                  *)
(***************************************************************************)
\* Phrases the classification sweep builds its queries from: one keyword of
\* each keyword set of _determine_role_from_query_type (a capital letter in
\* one), the two security modifiers, and a word no set lists ("maintain",
\* which holds the letters "ai").
Vocabulary ==
    {"Security", "network", "cloud", "api", "sql", "how to", "compare",
     "strategy", "model", "maintain"}

Queries ==
    {join(" ", ws) : ws \in UNION {[1..n -> Vocabulary] : n \in 0..MaxWords}}

QueryTypes == {"security", "general_query", "analysis_request", "custom_type"}
SweepQueryTypes == {"security", "general_query", "custom_type"}
ReasoningDepths == {"basic", "intermediate", "comprehensive", "expert"}
Complexities == {"simple", "intermediate", "complex", "extreme"}

\* A dict with one entry, and the union of two dicts.
Entry(key, value) == PyDict(key :> value)
Merge(d1, d2) == PyDict(d1.val @@ d2.val)

QueryAnalyses ==
    {EmptyDict}
    \cup {Entry("query_type", PyStr(t)) : t \in QueryTypes}
    \cup {Entry("complexity", PyStr(c)) : c \in Complexities}
    \cup {Merge(Entry("query_type", PyStr(t)), Entry("complexity", PyStr(c))) :
            t \in {"security"}, c \in Complexities}

\* The classification sweep: every query of the vocabulary with every
\* query_type, the other inputs at their defaults.
ClassificationInputs ==
    {[context |-> Merge(Entry("query", PyStr(q)), Entry("query_analysis", qa)),
      preferences |-> PyNone,
      include_evaluation |-> FALSE] :
        q \in Queries,
        qa \in {EmptyDict} \cup {Entry("query_type", PyStr(t)) : t \in SweepQueryTypes}}

\* The selection sweep: every reasoning_depth with every complexity, given
\* and left out, for one query.
SelectionInputs ==
    {[context |-> Merge(Entry("query", PyStr("Explain caching")), Merge(rd, qa)),
      preferences |-> PyNone,
      include_evaluation |-> ie] :
        rd \in {EmptyDict} \cup {Entry("reasoning_depth", PyStr(d)) : d \in ReasoningDepths},
        qa \in {EmptyDict} \cup {Entry("query_analysis", a) : a \in QueryAnalyses},
        ie \in BOOLEAN}

\* The background sweep: every combination of one keyword of each pattern of
\* _extract_background_context, last pattern first in the query, with every
\* complexity, given and left out.
BackgroundKeywords ==
    <<"devops", "architecture", "model", "strategy", "security", "how to", "compare">>

BackgroundQueries ==
    {LET chosen == SelectSeq([i \in 1..Len(BackgroundKeywords) |-> i], LAMBDA i : i \in S)
     IN  IF S = {} THEN "cloud"
         ELSE join(" ", [n \in 1..Len(chosen) |-> BackgroundKeywords[chosen[n]]]) :
        S \in SUBSET (1..Len(BackgroundKeywords))}

BackgroundInputs ==
    {[context |-> Merge(Entry("query", PyStr(q)), Entry("query_analysis", qa)),
      preferences |-> PyNone,
      include_evaluation |-> FALSE] :
        q \in BackgroundQueries,
        qa \in {EmptyDict} \cup {Entry("complexity", PyStr(c)) : c \in Complexities}}

\* The role table sweep: queries with no keyword of role selection, with
\* every query_type of role_mapping, one it does not list, and none.
RoleTableInputs ==
    {[context |-> Merge(Entry("query", PyStr(q)), Entry("query_analysis", qa)),
      preferences |-> PyNone,
      include_evaluation |-> FALSE] :
        q \in {"cloud", "network cloud"},
        qa \in {EmptyDict}
                \cup {Entry("query_type", PyStr(t)) :
                        t \in (DOMAIN role_mapping) \cup {"general", "custom_type"}}}

QueryKeys == {"query", "task", "request"}

\* What a caller may put under a query key: empty, blank, padded, with a
\* line of its own that starts "## ", and values that are no strings.
QueryValues ==
    {PyStr(""), PyStr("  \n"), PyStr("  compare cloud "),
     PyStr("Explain caching\n## Extra"), PyNone, PyInt(42)}

PipelineContexts ==
    {PyNone, EmptyDict}
    \cup {Entry(k, v) : k \in QueryKeys, v \in QueryValues}
    \cup {Merge(Entry("query", PyStr(blank)), Entry("task", PyStr("compare cloud"))) :
            blank \in {"", "  "}}
    \cup {Entry("reasoning_depth", PyStr("basic"))}
    \cup {Merge(Entry("query", PyStr("compare cloud")), Entry("query_analysis", PyNone))}

PreferenceValues ==
    {PyNone, EmptyDict, Entry("format_preference", PyStr("table"))}
    \cup {Entry("tone_preference", t) :
            t \in {PyStr("casual"), PyStr(""), PyStr("formal\n## style"), PyNone}}

\* The pipeline sweep: every shape of context with every preferences value
\* and both values of include_evaluation.
PipelineInputs ==
    {[context |-> c, preferences |-> p, include_evaluation |-> ie] :
        c \in PipelineContexts, p \in PreferenceValues, ie \in BOOLEAN}

Inputs ==
    ClassificationInputs \cup SelectionInputs \cup BackgroundInputs
    \cup RoleTableInputs \cup PipelineInputs

(***************************************************************************)
(* One run of generate_prompt.                                              *)
(***************************************************************************)
VARIABLES
    context,             \* argument
    preferences,         \* argument
    include_evaluation,  \* argument
    pc,                  \* where the run is
    query,               \* local, a Python value
    query_analysis,      \* local, a Python value
    reasoning_depth,     \* local, a Python value
    classification,      \* the values the builders derived (their locals)
    components,          \* the six rendered sections
    create_prompt,       \* the assembled document
    rigor_level,         \* the level passed to the evaluator
    evaluation_results,  \* the report mapping
    evaluator_calls,     \* the calls made to the evaluator, in order
    exc,                 \* the exception on its way to the except clause
    result,              \* what the caller gets
    call,                \* the number of this call on the agent
    previous,            \* what the call before this one returned
    evaluator_memo       \* what the evaluator answered, by its arguments

vars == <<context, preferences, include_evaluation, pc, query, query_analysis,
          reasoning_depth, classification, components, create_prompt,
          rigor_level, evaluation_results, evaluator_calls, exc, result,
          call, previous, evaluator_memo>>

Unset == [type |-> "unset", val |-> ""]
NoResult == [kind |-> "none"]

Init ==
    /\ \E input \in Inputs :
          /\ context = input.context
          /\ preferences = input.preferences
          /\ include_evaluation = input.include_evaluation
    /\ pc = "START"
    /\ query = Unset
    /\ query_analysis = Unset
    /\ reasoning_depth = Unset
    /\ classification = Unset
    /\ components = Unset
    /\ create_prompt = ""
    /\ rigor_level = ""
    /\ evaluation_results = EmptyDict
    /\ evaluator_calls = <<>>
    /\ exc = ""
    /\ result = NoResult
    /\ call = 1
    /\ previous = NoResult
    /\ evaluator_memo = <<>>

\* Line 155: the query, under the first of its keys that holds a true value.
resolve_query(ctx) ==
    Or(Or(get(ctx, "query", PyStr("")), get(ctx, "task", PyStr(""))),
       get(ctx, "request", PyStr("")))

\* A statement inside the try raised: control goes to line 249.
RaiseInTry(raised) ==
    /\ exc' = raised.val
    /\ pc' = "EXCEPT"

\* return value of generate_prompt: the document alone, or the pair.
Returned(document, report) ==
    IF include_evaluation
    THEN [kind |-> "tuple", document |-> document, report |-> report]
    ELSE [kind |-> "str", document |-> document]

\* Lines 155-157.
Extract ==
    /\ pc = "START"
    /\ IF ~IsDict(context)
       THEN /\ RaiseInTry(AttributeError(context, "get"))
            /\ UNCHANGED <<query, query_analysis, reasoning_depth>>
       ELSE /\ query' = resolve_query(context)
            /\ query_analysis' = get(context, "query_analysis", EmptyDict)
            /\ reasoning_depth' = get(context, "reasoning_depth", PyStr("intermediate"))
            /\ pc' = "VALIDATE"
            /\ exc' = exc
    /\ UNCHANGED <<call, previous, evaluator_memo, context, preferences, include_evaluation, classification,
                   components, create_prompt, rigor_level, evaluation_results,
                   evaluator_calls, result>>

ValidateFrame ==
    UNCHANGED <<call, previous, evaluator_memo, context, preferences, include_evaluation, query_analysis,
                reasoning_depth, classification, components, create_prompt,
                rigor_level, evaluation_results, evaluator_calls>>

\* Line 162, and lines 164-168.
UseDefaultQuery ==
    /\ query' = PyStr("Provide helpful assistance")
    /\ pc' = "BUILD"
    /\ UNCHANGED <<exc, result>>

ReturnEmptyQueryError ==
    /\ result' = Returned(_generate_error_prompt("Empty query provided"),
                          PyDict([error |-> PyStr("Empty query provided"),
                                  evaluation |-> PyNone]))
    /\ pc' = "ERROR"
    /\ UNCHANGED <<query, exc>>

\* Mutant of Validate: every empty query gets the default query.
Validate_always_default ==
    /\ pc = "VALIDATE"
    /\ \/ /\ ~IsStr(query)
          /\ RaiseInTry(AttributeError(query, "strip"))
          /\ UNCHANGED <<query, result>>
       \/ /\ IsStr(query)
          /\ strip(query.val) = ""
          /\ UseDefaultQuery
       \/ /\ IsStr(query)
          /\ strip(query.val) # ""
          /\ pc' = "BUILD"
          /\ UNCHANGED <<query, exc, result>>
    /\ ValidateFrame

\* Mutant of Validate: every empty query is an error, the empty context too.
Validate_never_default ==
    /\ pc = "VALIDATE"
    /\ \/ /\ ~IsStr(query)
          /\ RaiseInTry(AttributeError(query, "strip"))
          /\ UNCHANGED <<query, result>>
       \/ /\ IsStr(query)
          /\ strip(query.val) = ""
          /\ ReturnEmptyQueryError
       \/ /\ IsStr(query)
          /\ strip(query.val) # ""
          /\ pc' = "BUILD"
          /\ UNCHANGED <<query, exc, result>>
    /\ ValidateFrame

\* Lines 160-168.
Validate ==
    /\ pc = "VALIDATE"
    /\ \/ /\ ~IsStr(query)
          /\ RaiseInTry(AttributeError(query, "strip"))
          /\ UNCHANGED <<query, result>>
       \/ /\ IsStr(query)
          /\ strip(query.val) = ""
          /\ ~Truthy(context)
          /\ UseDefaultQuery
       \/ /\ IsStr(query)
          /\ strip(query.val) = ""
          /\ Truthy(context)
          /\ ReturnEmptyQueryError
       \/ /\ IsStr(query)
          /\ strip(query.val) # ""
          /\ pc' = "BUILD"
          /\ UNCHANGED <<query, exc, result>>
    /\ ValidateFrame

\* What the builders derive on the way (the ClassificationResult).
classify(q, qa, rd, prefs) ==
    LET query_type == query_type_of(qa)
        complexity == complexity_of(qa)
        role       == _determine_role_from_query_type(query_type, q)
    IN  [role          |-> role,
         persona       |-> _generate_persona_clause(query_type, role),
         background    |-> _extract_background_context(q, complexity),
         goal          |-> _define_response_goal(q),
         tier_info     |-> _select_appropriate_tier(rd, complexity),
         action_verbs  |-> _extract_action_verbs(q),
         output_format |-> _determine_output_format(q, "complexity" \in DOMAIN qa.val, complexity),
         frameworks    |-> _select_analytical_frameworks(q, query_type),
         evidence_requirements |-> _determine_evidence_requirements(complexity),
         tone          |-> tone_of(prefs).val,
         inline_rigor  |-> inline_rigor_level(rd, complexity)]

\* Lines 171-176: the six builders, in call order.
build_sections(q, rd, qa, prefs) ==
    <<_build_context_component(q, qa, prefs),
      _build_request_component(q, rd, qa),
      _build_examples_component(q, qa),
      _build_augmentations_component(q, qa),
      _build_tone_format_component(q, prefs),
      _build_evaluation_component(rd, qa)>>

\* The first of the builders' results that is a raised exception.
first_raised(built) ==
    LET raised == {i \in 1..Len(built) : IsRaise(built[i])}
    IN  built[CHOOSE i \in raised : \A j \in raised : i <= j]

\* Lines 171-176: the first builder to raise ends the try.
Build ==
    /\ pc = "BUILD"
    /\ \E built \in {build_sections(query.val, reasoning_depth.val,
                                     query_analysis, preferences)} :
          IF \E i \in 1..6 : IsRaise(built[i])
          THEN /\ RaiseInTry(first_raised(built))
               /\ UNCHANGED <<classification, components>>
          ELSE /\ components' = [i \in 1..6 |-> built[i].val]
               /\ classification' = classify(query.val, query_analysis,
                                             reasoning_depth.val, preferences)
               /\ pc' = "ASSEMBLE"
               /\ exc' = exc
    /\ UNCHANGED <<call, previous, evaluator_memo, context, preferences, include_evaluation, query, query_analysis,
                   reasoning_depth, create_prompt, rigor_level, evaluation_results,
                   evaluator_calls, result>>

\* Mutant of Assemble: the agent counts its calls and the document carries
\* the count.
Assemble_counting ==
    /\ pc = "ASSEMBLE"
    /\ create_prompt' = assemble(components[1], components[2], components[3],
                                 components[4], components[5], components[6])
                            \o "\n\nPrompt #" \o ToString(call)
    /\ pc' = "EVALUATE"
    /\ UNCHANGED <<call, previous, evaluator_memo, context, preferences, include_evaluation, query, query_analysis,
                   reasoning_depth, classification, components, rigor_level,
                   evaluation_results, evaluator_calls, exc, result>>

\* Lines 179-203.
Assemble ==
    /\ pc = "ASSEMBLE"
    /\ create_prompt' = assemble(components[1], components[2], components[3],
                                 components[4], components[5], components[6])
    /\ pc' = "EVALUATE"
    /\ UNCHANGED <<call, previous, evaluator_memo, context, preferences, include_evaluation, query, query_analysis,
                   reasoning_depth, classification, components, rigor_level,
                   evaluation_results, evaluator_calls, exc, result>>

\* Line 210.
rigor_for_call ==
    _determine_rigor_level(reasoning_depth.val, complexity_of(query_analysis))

\* One call of evaluate_prompt (lines 213-215), as the log keeps it.
CallRecord(outcome) ==
    [document    |-> create_prompt,
     context     |-> context,
     rigor_level |-> rigor_for_call,
     outcome     |-> outcome.kind,
     returned    |-> outcome.value.type]

\* The evaluator answers the same arguments the same way: what it may answer
\* to evaluate_prompt(document, ctx, rigor), given what it has answered.
EvaluatorAnswers(document, ctx, rigor) ==
    {outcome \in EvaluatorOutcomes(rigor) :
        \A n \in 1..Len(evaluator_memo) :
            (/\ evaluator_memo[n].document = document
             /\ evaluator_memo[n].context = ctx
             /\ evaluator_memo[n].rigor_level = rigor) => evaluator_memo[n].answer = outcome}

Remember(outcome) ==
    IF \E n \in 1..Len(evaluator_memo) :
          /\ evaluator_memo[n].document = create_prompt
          /\ evaluator_memo[n].context = context
          /\ evaluator_memo[n].rigor_level = rigor_for_call
    THEN evaluator_memo
    ELSE Append(evaluator_memo, [document    |-> create_prompt,
                                 context     |-> context,
                                 rigor_level |-> rigor_for_call,
                                 answer      |-> outcome])

\* Lines 217-241: the report after the call; the except of line 239 takes
\* what the call or the projection raised.
ReportOf(outcome) ==
    LET projected == IF outcome.kind = "raise" THEN outcome.value
                     ELSE project(outcome.value)
    IN  IF IsRaise(projected)
        THEN PyDict([error |-> PyStr("Evaluation failed: " \o projected.val)])
        ELSE projected

EvaluateFrame ==
    UNCHANGED <<call, previous, context, preferences, include_evaluation, query, query_analysis,
                reasoning_depth, classification, components, create_prompt, result>>

\* Mutant of Evaluate: no try around the call, so what it raises goes to the
\* except clause of line 249.
Evaluate_unguarded ==
    /\ pc = "EVALUATE"
    /\ IF include_evaluation
       THEN \E outcome \in EvaluatorAnswers(create_prompt, context, rigor_for_call) :
               /\ rigor_level' = rigor_for_call
               /\ evaluator_calls' = Append(evaluator_calls, CallRecord(outcome))
               /\ evaluator_memo' = Remember(outcome)
               /\ IF outcome.kind = "raise"
                  THEN /\ RaiseInTry(outcome.value)
                       /\ UNCHANGED evaluation_results
                  ELSE /\ evaluation_results' = ReportOf(outcome)
                       /\ pc' = "RETURN"
                       /\ exc' = exc
       ELSE /\ UNCHANGED <<rigor_level, evaluator_calls, evaluation_results, exc,
                           evaluator_memo>>
            /\ pc' = "RETURN"
    /\ EvaluateFrame

\* Mutant of Evaluate: a call that raised is made once more.
Evaluate_retry ==
    /\ pc = "EVALUATE"
    /\ IF include_evaluation
       THEN \E first \in EvaluatorAnswers(create_prompt, context, rigor_for_call) :
               /\ rigor_level' = rigor_for_call
               /\ evaluator_memo' = Remember(first)
               /\ IF first.kind = "raise"
                  THEN \E second \in EvaluatorOutcomes(rigor_for_call) :
                          /\ evaluator_calls' = evaluator_calls
                                 \o <<CallRecord(first), CallRecord(second)>>
                          /\ evaluation_results' = ReportOf(second)
                  ELSE /\ evaluator_calls' = Append(evaluator_calls, CallRecord(first))
                       /\ evaluation_results' = ReportOf(first)
       ELSE UNCHANGED <<rigor_level, evaluator_calls, evaluation_results, evaluator_memo>>
    /\ pc' = "RETURN"
    /\ exc' = exc
    /\ EvaluateFrame

\* Lines 206-241: with include_evaluation, one call inside its own try.
Evaluate ==
    /\ pc = "EVALUATE"
    /\ IF include_evaluation
       THEN \E outcome \in EvaluatorAnswers(create_prompt, context, rigor_for_call) :
               /\ rigor_level' = rigor_for_call
               /\ evaluator_calls' = Append(evaluator_calls, CallRecord(outcome))
               /\ evaluator_memo' = Remember(outcome)
               /\ evaluation_results' = ReportOf(outcome)
       ELSE UNCHANGED <<rigor_level, evaluator_calls, evaluation_results, evaluator_memo>>
    /\ pc' = "RETURN"
    /\ exc' = exc
    /\ EvaluateFrame

\* Lines 244-247.
Return ==
    /\ pc = "RETURN"
    /\ result' = Returned(create_prompt, evaluation_results)
    /\ pc' = "DONE"
    /\ UNCHANGED <<call, previous, evaluator_memo, context, preferences, include_evaluation, query, query_analysis,
                   reasoning_depth, classification, components, create_prompt,
                   rigor_level, evaluation_results, evaluator_calls, exc>>

\* Mutant of HandleError: the except clause logs and raises again.
HandleError_reraise ==
    /\ pc = "EXCEPT"
    /\ result' = [kind |-> "raise", exception |-> exc]
    /\ pc' = "RAISED"
    /\ UNCHANGED <<call, previous, evaluator_memo, context, preferences, include_evaluation, query, query_analysis,
                   reasoning_depth, classification, components, create_prompt,
                   rigor_level, evaluation_results, evaluator_calls, exc>>

\* Mutant of HandleError: the report of a generation failure has the error
\* key alone.
HandleError_bare ==
    /\ pc = "EXCEPT"
    /\ result' = Returned(_generate_error_prompt("Generation failed: " \o exc),
                          PyDict([error |-> PyStr("Generation failed: " \o exc)]))
    /\ pc' = "ERROR"
    /\ UNCHANGED <<call, previous, evaluator_memo, context, preferences, include_evaluation, query, query_analysis,
                   reasoning_depth, classification, components, create_prompt,
                   rigor_level, evaluation_results, evaluator_calls, exc>>

\* Lines 249-255: except Exception.
HandleError ==
    /\ pc = "EXCEPT"
    /\ result' = Returned(_generate_error_prompt("Generation failed: " \o exc),
                          PyDict([error |-> PyStr("Generation failed: " \o exc),
                                  evaluation |-> PyNone]))
    /\ pc' = "ERROR"
    /\ UNCHANGED <<call, previous, evaluator_memo, context, preferences, include_evaluation, query, query_analysis,
                   reasoning_depth, classification, components, create_prompt,
                   rigor_level, evaluation_results, evaluator_calls, exc>>

Next ==
    \/ Extract
    \/ Validate
    \/ Build
    \/ Assemble
    \/ Evaluate
    \/ Return
    \/ HandleError

Spec == Init /\ [][Next]_vars

(***************************************************************************)
(* The same agent called again with the same arguments.  generate_prompt    *)
(* keeps its values in locals and assigns no attribute of self, so a new    *)
(* call starts as the first did; the evaluator is the one thing that lives  *)
(* on.                                                                      *)
(***************************************************************************)
MaxCalls == 2

RepeatInputs == SelectionInputs \cup PipelineInputs

InitRepeat ==
    /\ Init
    /\ [context |-> context, preferences |-> preferences,
        include_evaluation |-> include_evaluation] \in RepeatInputs

CallAgain ==
    /\ pc \in {"DONE", "ERROR"}
    /\ call < MaxCalls
    /\ call' = call + 1
    /\ previous' = result
    /\ pc' = "START"
    /\ query' = Unset
    /\ query_analysis' = Unset
    /\ reasoning_depth' = Unset
    /\ classification' = Unset
    /\ components' = Unset
    /\ create_prompt' = ""
    /\ rigor_level' = ""
    /\ evaluation_results' = EmptyDict
    /\ evaluator_calls' = <<>>
    /\ exc' = ""
    /\ result' = NoResult
    /\ UNCHANGED <<context, preferences, include_evaluation, evaluator_memo>>

NextRepeat ==
    \/ Next
    \/ CallAgain

SpecRepeat == InitRepeat /\ [][NextRepeat]_vars


(***************************************************************************)
(* What the claims speak of.                                                *)
(***************************************************************************)
Terminal == {"DONE", "ERROR"}
Running == {"START", "VALIDATE", "BUILD", "ASSEMBLE", "EVALUATE", "RETURN", "EXCEPT"}

\* The positions in doc where a line starts with "## ".
HeadingStarts(doc) ==
    {i \in 1..(Len(doc) - 2) :
        /\ SubSeq(doc, i, i + 2) = "## "
        /\ (i = 1 \/ CharAt(doc, i - 1) = "\n")}

\* The line of doc that starts at position i.
LineAt(doc, i) ==
    LET ends == {j \in i..Len(doc) : CharAt(doc, j) = "\n"}
        stop == IF ends = {} THEN Len(doc) + 1
                ELSE CHOOSE j \in ends : \A k \in ends : j <= k
    IN  SubSeq(doc, i, stop - 1)

RECURSIVE Ascending(_)
Ascending(S) ==
    IF S = {} THEN <<>>
    ELSE LET m == CHOOSE i \in S : \A j \in S : i <= j
         IN  <<m>> \o Ascending(S \ {m})

\* The "##"-level headings of doc, top to bottom.
Headings(doc) ==
    LET starts == Ascending(HeadingStarts(doc))
    IN  [n \in 1..Len(starts) |-> LineAt(doc, starts[n])]

SectionHeadings ==
    <<"## C - Context (Role, Background, Goal)",
      "## R - Request (Task, Format, Depth, Action Verbs)",
      "## E - Examples (Few-Shot Prompting)",
      "## A - Augmentations (Frameworks, Evidence, Reasoning)",
      "## T - Tone & Format (Voice, Style, Structure)",
      "## E - Evaluation (Quality Assurance, Verification)">>

StartsWith(doc, prefix) ==
    Len(prefix) <= Len(doc) /\ SubSeq(doc, 1, Len(prefix)) = prefix

\* doc carries the six section headings, in their order, under the title of
\* the full document (other "##" lines may stand between them).
IsSixSectionDocument(doc) ==
    LET hs == Headings(doc)
    IN  /\ StartsWith(doc, "# C.R.E.A.T.E. Framework Enhanced Prompt\n")
        /\ \E at \in [1..6 -> 1..Len(hs)] :
              /\ \A n \in 1..6 : hs[at[n]] = SectionHeadings[n]
              /\ \A n \in 1..5 : at[n] < at[n + 1]

\* doc is the short fallback document that embeds reason.
IsFallbackDocument(doc, reason) ==
    /\ StartsWith(doc, "# Prompt Generation Error\n")
    /\ In("An error occurred during CREATE framework prompt generation: " \o reason \o "\n", doc)
    /\ In("**Request**: " \o reason \o "\n", doc)
    /\ Headings(doc) = <<"## Fallback Prompt Structure">>

ReportKeys == DOMAIN result.report.val

EvaluatorRaised ==
    \E n \in 1..Len(evaluator_calls) : evaluator_calls[n].outcome = "raise"

\* The call's inputs, as the claims take them.
query_is_empty ==
    /\ IsDict(context)
    /\ IsStr(resolve_query(context))
    /\ strip(resolve_query(context).val) = ""

tone_is_usable ==
    \/ ~Truthy(preferences)
    \/ /\ IsDict(preferences)
       /\ "tone_preference" \in DOMAIN preferences.val => IsStr(preferences.val["tone_preference"])

(***************************************************************************)
(* C1.  generate_prompt never lets an exception out: whatever the context, *)
(* the preferences and the evaluator do, the run is inside the try or has   *)
(* returned, and a run that has ended returned a string when                *)
(* include_evaluation is false and a (document, report) pair when it is     *)
(* true.                                                                    *)
(***************************************************************************)
C1_AlwaysReturns ==
    /\ pc \in Running \cup Terminal
    /\ pc \in Running => result.kind = "none"
    /\ pc \in Terminal =>
          /\ result.kind = (IF include_evaluation THEN "tuple" ELSE "str")
          /\ Len(result.document) > 0
          /\ include_evaluation => IsDict(result.report)

\* A generation failure (here a context that is no mapping, or a value that
\* is no string) came back as a pair.
C1_Witness ==
    /\ pc = "ERROR"
    /\ exc # ""
    /\ include_evaluation
    /\ result.kind = "tuple"

(***************************************************************************)
(* C2.  For a query that is not empty after trimming, a well-formed         *)
(* query_analysis and preferences that are absent or hold a string          *)
(* tone_preference, the run ends in DONE with a document that has exactly   *)
(* the six "##" headings, in order.                                         *)
(***************************************************************************)
WellFormedAnalysis ==
    \/ "query_analysis" \notin DOMAIN context.val
    \/ LET qa == context.val["query_analysis"]
       IN  /\ IsDict(qa)
           /\ "complexity" \in DOMAIN qa.val =>
                 /\ IsStr(qa.val["complexity"])
                 /\ qa.val["complexity"].val \in {"simple", "intermediate", "complex"}
           /\ "query_type" \in DOMAIN qa.val => IsStr(qa.val["query_type"])

C2_ExactlySixHeadings ==
    ( /\ pc \in Terminal
      /\ IsDict(context)
      /\ IsStr(resolve_query(context))
      /\ strip(resolve_query(context).val) # ""
      /\ WellFormedAnalysis
      /\ \/ preferences.type = "NoneType"
         \/ /\ IsDict(preferences)
            /\ "tone_preference" \in DOMAIN preferences.val
            /\ IsStr(preferences.val["tone_preference"]) )
    => /\ pc = "DONE"
       /\ Headings(result.document) = SectionHeadings

(***************************************************************************)
(* C3.  An empty (after trimming) query in a context that has a key ends    *)
(* the run in ERROR before any section is built: the fallback document      *)
(* with "Empty query provided", paired with {error, evaluation: None} when  *)
(* evaluation was asked for.                                                *)
(***************************************************************************)
C3_EmptyQueryIsError ==
    (query_is_empty /\ Truthy(context)) =>
        /\ pc \in {"START", "VALIDATE", "ERROR"}
        /\ components = Unset
        /\ create_prompt = ""
        /\ evaluator_calls = <<>>
        /\ pc = "ERROR" =>
              /\ IsFallbackDocument(result.document, "Empty query provided")
              /\ include_evaluation =>
                    /\ ReportKeys = {"error", "evaluation"}
                    /\ IsStr(result.report.val["error"])
                    /\ result.report.val["error"].val = "Empty query provided"
                    /\ result.report.val["evaluation"].type = "NoneType"

\* The run for {"reasoning_depth": "basic"} with evaluation has ended.
C3_Witness ==
    /\ pc = "ERROR"
    /\ IsDict(context)
    /\ DOMAIN context.val = {"reasoning_depth"}
    /\ include_evaluation
    /\ result.kind = "tuple"

(***************************************************************************)
(* C4.  As claimed: with a context that has no key the run ends in DONE     *)
(* with the six-section document whose Primary Task is "Provide helpful     *)
(* assistance".                                                             *)
(***************************************************************************)
DefaultQueryDocument ==
    /\ pc = "DONE"
    /\ IsSixSectionDocument(result.document)
    /\ In("\n**Primary Task**: Provide helpful assistance\n", result.document)
    /\ ~In("# Prompt Generation Error", result.document)

C5_EvaluatorFailureAbsorbed ==
    EvaluatorRaised =>
        /\ pc \in {"RETURN", "DONE"}
        /\ exc = ""
        /\ DOMAIN evaluation_results.val = {"error"}
        /\ pc = "DONE" =>
              /\ result.kind = "tuple"
              /\ result.document = create_prompt
              /\ result.document = assemble(components[1], components[2], components[3],
                                            components[4], components[5], components[6])
              /\ IsSixSectionDocument(result.document)
              /\ ReportKeys = {"error"}
              /\ IsStr(result.report.val["error"])

C5_Witness ==
    /\ pc = "DONE"
    /\ include_evaluation
    /\ EvaluatorRaised
    /\ ReportKeys = {"error"}

(***************************************************************************)
(* C6.  The evaluator is called at most once in a run, only with            *)
(* include_evaluation true, only with the assembled six-section document,   *)
(* never on a run that ends in ERROR, and not again after it raised.        *)
(***************************************************************************)
C6_EvaluatorCalledAtMostOnce ==
    /\ Len(evaluator_calls) <= 1
    /\ ~include_evaluation => evaluator_calls = <<>>
    /\ pc \in {"START", "VALIDATE", "BUILD", "ASSEMBLE", "EVALUATE", "EXCEPT", "ERROR"} =>
          evaluator_calls = <<>>
    /\ evaluator_calls # <<>> =>
          /\ include_evaluation
          /\ evaluator_calls[1].document = create_prompt
          /\ IsSixSectionDocument(evaluator_calls[1].document)
    /\ pc = "DONE" /\ include_evaluation => Len(evaluator_calls) = 1

\* The one call raised, and the run went on to return.
C6_Witness ==
    /\ pc = "RETURN"
    /\ Len(evaluator_calls) = 1
    /\ evaluator_calls[1].outcome = "raise"

(***************************************************************************)
(* C7.  The rigor level passed to the evaluator is ADVANCED if              *)
(* reasoning_depth is comprehensive or complexity is complex; else BASIC if *)
(* reasoning_depth is basic and complexity is simple; else STANDARD; a      *)
(* complexity that is not given counts as intermediate.                     *)
(***************************************************************************)
given_reasoning_depth ==
    IF "reasoning_depth" \in DOMAIN context.val
    THEN context.val["reasoning_depth"].val ELSE "intermediate"

given_complexity ==
    IF /\ "query_analysis" \in DOMAIN context.val
       /\ "complexity" \in DOMAIN context.val["query_analysis"].val
    THEN context.val["query_analysis"].val["complexity"].val ELSE "intermediate"

C7_RigorLevel ==
    rigor_level # "" =>
        LET rd == given_reasoning_depth
            cx == given_complexity
        IN  /\ (rd = "comprehensive" \/ cx = "complex") => rigor_level = "ADVANCED"
            /\ (rd # "comprehensive" /\ cx # "complex" /\ rd = "basic" /\ cx = "simple") =>
                  rigor_level = "BASIC"
            /\ (rd # "comprehensive" /\ cx # "complex" /\ ~(rd = "basic" /\ cx = "simple")) =>
                  rigor_level = "STANDARD"
            /\ (rd = "comprehensive" /\ cx = "simple") => rigor_level = "ADVANCED"
            /\ (rd = "basic" /\ cx = "intermediate") => rigor_level = "STANDARD"
            /\ (rd = "basic" /\ cx = "simple") => rigor_level = "BASIC"
            /\ evaluator_calls[1].rigor_level = rigor_level

\* basic depth, no complexity given: STANDARD.
C7_Witness ==
    /\ rigor_level = "STANDARD"
    /\ given_reasoning_depth = "basic"
    /\ "query_analysis" \notin DOMAIN context.val

(***************************************************************************)
(* C8.  Of the 3x3 pairs (reasoning_depth, complexity) seven get a listed   *)
(* tier and two, (basic, complex) and (intermediate, complex), get the      *)
(* default tier "Tier 5: Detailed Response ...", which no listed pair gets; *)
(* a pair with a value outside the three gets the default tier too.         *)
(***************************************************************************)
DepthValues == {"basic", "intermediate", "comprehensive"}
ComplexityValues == {"simple", "intermediate", "complex"}
DefaultTier == "Tier 5: Detailed Response (900-2000 words) - Professional analysis"
Built == pc \in {"ASSEMBLE", "EVALUATE", "RETURN", "DONE"}

C8_SparseTierTable ==
    LET pairs     == DepthValues \X ComplexityValues
        defaulted == {p \in pairs : _select_appropriate_tier(p[1], p[2]) = DefaultTier}
    IN  /\ Cardinality(pairs \ defaulted) = 7
        /\ defaulted = {<<"basic", "complex">>, <<"intermediate", "complex">>}
        /\ Built =>
              LET rd == given_reasoning_depth
                  cx == given_complexity
              IN  /\ (classification.tier_info = DefaultTier)
                        <=> (<<rd, cx>> \notin pairs \/ <<rd, cx>> \in defaulted)
                  /\ In("\n- Depth: " \o classification.tier_info \o "\n", components[2])

C8_Witness ==
    /\ Built
    /\ given_reasoning_depth = "intermediate"
    /\ given_complexity = "complex"
    /\ classification.tier_info = DefaultTier

(***************************************************************************)
(* C9.  The role is that of the first keyword set, in the order security,   *)
(* development/ops, data, implementation, comparison, business, ML/AI,      *)
(* with a keyword in the lower-cased query; a query with "security" and     *)
(* "compare" gets a security role and the security persona.  With no set    *)
(* matching the role comes from the query_type table, and is the generic    *)
(* role for a query_type the table does not list.                           *)
(***************************************************************************)
KeywordSets ==
    <<{"security", "threat", "vulnerability", "cyber", "attack", "defense"},
      {"api", "microservices", "docker", "kubernetes", "ci/cd", "devops"},
      {"data", "analytics", "power bi", "sql", "database"},
      {"how to", "implement", "setup", "configure"},
      {"compare", "vs", "versus", "difference"},
      {"startup", "business", "strategy", "decision", "recommend"},
      {"machine learning", "ai", "artificial intelligence", "model"}>>

SetRoles ==
    <<{"network security specialist", "cloud security architect", "cybersecurity architect"},
      {"senior software architect"},
      {"senior data architect"},
      {"technical implementation specialist"},
      {"technology consultant"},
      {"senior technology strategist"},
      {"machine learning engineer"}>>

TableRoles ==
    {"cybersecurity architect", "senior systems analyst", "strategic business analyst",
     "technical documentation specialist", "prompt engineering specialist",
     "senior solution architect", "subject matter expert"}

C9_RoleByFirstKeywordSet ==
    pc = "ASSEMBLE" =>
        LET query_lower == lower(query.val)
            matching    == {n \in 1..7 : AnyIn(KeywordSets[n], query_lower)}
            first       == CHOOSE n \in matching : \A m \in matching : n <= m
            query_type  == query_type_of(query_analysis)
            role        == classification.role
        IN  /\ matching # {} => role \in SetRoles[first]
            /\ matching = {} =>
                  IF query_type \in DOMAIN role_mapping
                  THEN role = role_mapping[query_type] /\ role \in TableRoles
                  ELSE role = "senior consultant"
            /\ (In("security", query_lower) /\ In("compare", query_lower)) =>
                  /\ role \in SetRoles[1]
                  /\ classification.persona =
                        "with 15+ years defending critical infrastructure systems"
            /\ StartsWith(components[1],
                  "**Role**: You are a " \o role \o ", " \o classification.persona \o "\n")

C9_Witness ==
    /\ pc = "ASSEMBLE"
    /\ query.val = "compare Security"
    /\ classification.role = "cybersecurity architect"
    /\ classification.persona = "with 15+ years defending critical infrastructure systems"

(***************************************************************************)
(* C10.  As claimed: a report of a run in which the evaluator did not       *)
(* raise has no error key.                                                  *)
(***************************************************************************)
C10_Original ==
    (pc \in Terminal /\ include_evaluation /\ ~EvaluatorRaised) =>
        "error" \notin ReportKeys

(***************************************************************************)
(* C10, amended.  The report has an error key only when the run ended in    *)
(* ERROR (the validation error or a generation failure, whose report is     *)
(* {error, evaluation: None} though the evaluator was never called) or the  *)
(* evaluation step failed (the evaluator raised, or returned an object the  *)
(* projection could not read); the report of a run that ends in DONE after  *)
(* a successful evaluation has no error key.                                *)
(***************************************************************************)
EvaluationStepFailed ==
    \E n \in 1..Len(evaluator_calls) :
        \/ evaluator_calls[n].outcome = "raise"
        \/ evaluator_calls[n].returned # "EvaluationResult"

C10_ErrorKeyOnlyOnFailure ==
    (pc \in Terminal /\ include_evaluation) =>
        /\ "error" \in ReportKeys => (pc = "ERROR" \/ EvaluationStepFailed)
        /\ (pc = "DONE" /\ ~EvaluationStepFailed) =>
              /\ "error" \notin ReportKeys
              /\ "overall_score" \in ReportKeys
        /\ pc = "ERROR" => evaluator_calls = <<>>

C10_Witness ==
    /\ pc = "DONE"
    /\ include_evaluation
    /\ ~EvaluationStepFailed
    /\ Len(evaluator_calls) = 1
    /\ "error" \notin ReportKeys


(***************************************************************************)
(* C11.  As claimed: an exception raised while classifying, building,       *)
(* assembling or evaluating takes the run to ERROR.                         *)
(***************************************************************************)
ErrorReasons == {"Empty query provided", "Generation failed: " \o exc}

C11_Original ==
    (pc \in Terminal /\ (exc # "" \/ EvaluationStepFailed)) => pc = "ERROR"

(***************************************************************************)
(* C11, amended.  An exception raised before the evaluation step (reading   *)
(* the context, validating, classifying, building, assembling) is caught    *)
(* and takes the run to ERROR; a failure of the evaluation step does not:   *)
(* that run ends in DONE.  ERROR returns the fallback template, the same    *)
(* for a validation error and a generation failure but for the reason       *)
(* embedded, paired with {error: reason, evaluation: None} when evaluation  *)
(* was asked for.  Only a run that ends in DONE returns the six-section     *)
(* document.                                                                *)
(***************************************************************************)
C11_FailuresEndInFallback ==
    /\ pc = "EXCEPT" => exc # ""
    /\ (pc \in Terminal /\ exc # "") => pc = "ERROR"
    /\ EvaluationStepFailed => (pc \in {"RETURN", "DONE"} /\ exc = "")
    /\ pc = "ERROR" =>
          \E reason \in ErrorReasons :
              /\ (exc # "") <=> (reason = "Generation failed: " \o exc)
              /\ result.document = _generate_error_prompt(reason)
              /\ IsFallbackDocument(result.document, reason)
              /\ ~IsSixSectionDocument(result.document)
              /\ include_evaluation =>
                    /\ ReportKeys = {"error", "evaluation"}
                    /\ result.report.val["error"] = PyStr(reason)
                    /\ result.report.val["evaluation"] = PyNone
    /\ pc = "DONE" =>
          /\ IsSixSectionDocument(result.document)
          /\ ~StartsWith(result.document, "# Prompt Generation Error")

\* A builder raised (the tone is no string) and the run ended in ERROR with
\* the pair.
C11_Witness ==
    /\ pc = "ERROR"
    /\ include_evaluation
    /\ IsStr(query)
    /\ exc = "'NoneType' object has no attribute 'title'"
    /\ result.report.val["evaluation"] = PyNone

(***************************************************************************)
(* C12.  Every field of the classification a run derived (role, persona,    *)
(* background, goal, tier, action verbs, output format, frameworks,         *)
(* evidence requirements, tone) is a non-empty string, whatever the query,  *)
(* the query_analysis and the preferences.                                  *)
(***************************************************************************)
ClassificationFields ==
    {"role", "persona", "background", "goal", "tier_info", "action_verbs",
     "output_format", "frameworks", "evidence_requirements", "tone"}

C12_EveryFieldPopulated ==
    Built =>
        /\ ClassificationFields \subseteq DOMAIN classification
        /\ \A field \in ClassificationFields : Len(classification[field]) > 0
        /\ ~StartsWith(components[5], "**Tone**:  and accessible")

RigorLabelLine(label) == "**Quality Assurance Protocol** (ANCHOR-QR-8, " \o label \o " Rigor):\n"

\* The label the Evaluation section of this run shows.
ShownRigorLabel ==
    CHOOSE label \in {"Basic", "Standard", "Advanced"} :
        StartsWith(components[6], RigorLabelLine(label))

C14_Original ==
    (Built /\ given_reasoning_depth = "intermediate") => ShownRigorLabel = "Standard"

(***************************************************************************)
(* C14, amended.  With reasoning_depth intermediate (given or by default)   *)
(* the rigor label of the Evaluation section is "Advanced" when complexity  *)
(* is complex and "Standard" for every other complexity (simple,            *)
(* intermediate, not given, or a value outside the three).                  *)
(***************************************************************************)
C14_IntermediateDepthLabel ==
    (Built /\ given_reasoning_depth = "intermediate") =>
        /\ \E label \in {"Basic", "Standard", "Advanced"} :
              StartsWith(components[6], RigorLabelLine(label))
        /\ ShownRigorLabel = classification.inline_rigor
        /\ given_complexity = "complex" => ShownRigorLabel = "Advanced"
        /\ given_complexity # "complex" => ShownRigorLabel = "Standard"

C14_Witness ==
    /\ Built
    /\ given_reasoning_depth = "intermediate"
    /\ given_complexity = "complex"
    /\ ShownRigorLabel = "Advanced"

(***************************************************************************)
(* C16.  For reasoning_depth in {basic, intermediate, comprehensive} and    *)
(* complexity in {simple, intermediate, complex}, the rigor label shown in  *)
(* the Evaluation section names the level generate_prompt passes to the     *)
(* evaluator in the same call, but for the pair (basic, intermediate):      *)
(* there the document says Basic and the evaluator gets STANDARD.           *)
(***************************************************************************)
LevelNamed == [Basic |-> "BASIC", Standard |-> "STANDARD", Advanced |-> "ADVANCED"]

C16_LabelMatchesPassedLevel ==
    (/\ pc \in {"RETURN", "DONE"}
     /\ include_evaluation
     /\ given_reasoning_depth \in DepthValues
     /\ given_complexity \in ComplexityValues) =>
        /\ Len(evaluator_calls) = 1
        /\ evaluator_calls[1].rigor_level = rigor_level
        /\ In("\n" \o RigorLabelLine(ShownRigorLabel), evaluator_calls[1].document)
        /\ IF <<given_reasoning_depth, given_complexity>> = <<"basic", "intermediate">>
           THEN ShownRigorLabel = "Basic" /\ rigor_level = "STANDARD"
           ELSE LevelNamed[ShownRigorLabel] = rigor_level

\* The pair that differs, both values given by the caller.
C16_Witness ==
    /\ pc = "DONE"
    /\ include_evaluation
    /\ "reasoning_depth" \in DOMAIN context.val
    /\ "query_analysis" \in DOMAIN context.val
    /\ "complexity" \in DOMAIN context.val["query_analysis"].val
    /\ given_reasoning_depth = "basic"
    /\ given_complexity = "intermediate"
    /\ ShownRigorLabel = "Basic"
    /\ evaluator_calls[1].rigor_level = "STANDARD"

(***************************************************************************)
(* C15.  As claimed: the background block is the complexity sentence (for   *)
(* complexity intermediate or complex), then one sentence for each of the   *)
(* patterns comparison, how-to, security, business, ML that matches, in     *)
(* that order; with none of these it is the default sentence alone.  The    *)
(* sentences are joined with ". " and one period ends the block.            *)
(***************************************************************************)
BackgroundPatterns ==
    <<[terms |-> {"compare", "vs", "versus", "difference"},
       sentence |-> "Multiple options or approaches require systematic comparison to support informed decision-making"],
      [terms |-> {"how to", "implement", "setup", "configure"},
       sentence |-> "The user needs step-by-step guidance for practical implementation"],
      [terms |-> {"security", "threat", "vulnerability"},
       sentence |-> "Security considerations and risk factors must be thoroughly addressed"],
      [terms |-> {"startup", "business", "strategy"},
       sentence |-> "Business context and strategic implications are critical to the analysis"],
      [terms |-> {"machine learning", "ai", "model"},
       sentence |-> "Technical accuracy and practical applicability are essential for AI/ML topics"],
      [terms |-> {"microservices", "architecture"},
       sentence |-> "Architectural decisions have long-term implications for scalability and maintainability"],
      [terms |-> {"ci/cd", "devops"},
       sentence |-> "Implementation must consider development workflow and operational requirements"]>>

ComplexitySentence(cx) ==
    IF cx = "complex"
    THEN <<"This is a complex topic requiring comprehensive multi-faceted analysis with consideration of various perspectives and implications">>
    ELSE IF cx = "intermediate"
    THEN <<"This topic requires structured analysis with attention to key factors and relationships">>
    ELSE <<>>

DefaultBackground == "The user seeks authoritative information with practical applicability"

\* The block the rule gives with the given patterns.
BackgroundBlock(patterns, query_lower, cx) ==
    LET matching  == SelectSeq(patterns, LAMBDA p : AnyIn(p.terms, query_lower))
        sentences == ComplexitySentence(cx) \o [n \in 1..Len(matching) |-> matching[n].sentence]
    IN  IF Len(sentences) = 0 THEN DefaultBackground \o "."
        ELSE join(". ", sentences) \o "."

C15_Original ==
    Built => classification.background =
                 BackgroundBlock(SubSeq(BackgroundPatterns, 1, 5), lower(query.val), given_complexity)

(***************************************************************************)
(* C15, amended.  The patterns are seven: comparison, how-to, security,     *)
(* business, ML, then architecture (microservices, architecture) and        *)
(* delivery (ci/cd, devops).  The block is the complexity sentence (for     *)
(* complexity intermediate or complex), then one sentence for each pattern  *)
(* that matches the lower-cased query, in that order and non-exclusively;   *)
(* with no complexity sentence and none of the seven matching it is the     *)
(* default sentence alone.  The sentences are joined with ". " and one      *)
(* period ends the block, which is what the Context section shows.          *)
(***************************************************************************)
C15_BackgroundBlock ==
    Built =>
        /\ classification.background =
               BackgroundBlock(BackgroundPatterns, lower(query.val), given_complexity)
        /\ In("\n\n**Background**: " \o classification.background \o "\n\n", components[1])

\* complexity simple, the two later patterns and the comparison pattern: three
\* sentences, comparison first.
C15_Witness ==
    /\ Built
    /\ query.val = "devops architecture compare"
    /\ given_complexity = "simple"
    /\ classification.background =
           "Multiple options or approaches require systematic comparison to support informed decision-making. "
           \o "Architectural decisions have long-term implications for scalability and maintainability. "
           \o "Implementation must consider development workflow and operational requirements."

(***************************************************************************)
(* C17.  With the persona computed from the role that role selection        *)
(* returned, the query_type persona table is reached only for the role      *)
(* "subject matter expert" (query_type general_query, no keyword of role    *)
(* selection in the query), which the table lists; so the generic persona   *)
(* "with deep expertise in the relevant field" is never produced.  Every    *)
(* other role, the default "senior consultant" too, holds one of the        *)
(* role-category words.                                                     *)
(***************************************************************************)
RoleCategoryWords ==
    {"security", "architect", "consultant", "engineer", "analyst", "specialist", "strategist"}

PersonaTableValues == {personas[query_type] : query_type \in DOMAIN personas}

GenericPersona == "with deep expertise in the relevant field"

C17_GenericPersonaUnreachable ==
    Built =>
        LET role       == classification.role
            persona    == classification.persona
            query_type == query_type_of(query_analysis)
            no_keyword == \A n \in 1..Len(KeywordSets) : ~AnyIn(KeywordSets[n], lower(query.val))
        IN  /\ persona # GenericPersona
            /\ persona \in PersonaTableValues => role = "subject matter expert"
            /\ role # "subject matter expert" => AnyIn(RoleCategoryWords, role)
            /\ role = "subject matter expert" =>
                  /\ query_type = "general_query"
                  /\ no_keyword
                  /\ ~AnyIn(RoleCategoryWords, role)
                  /\ persona = personas["general_query"]
            /\ role = "senior consultant" =>
                  persona = "with proven expertise in technology strategy"
            /\ StartsWith(components[1], "**Role**: You are a " \o role \o ", " \o persona \o "\n")
            /\ ~In(GenericPersona, create_prompt)
            /\ pc = "DONE" => ~In(GenericPersona, result.document)

\* The one role that reaches the table, and the persona the table has for it.
C17_Witness ==
    /\ pc = "DONE"
    /\ classification.role = "subject matter expert"
    /\ classification.persona = "with comprehensive knowledge across domains"
    /\ In("You are a subject matter expert, with comprehensive knowledge across domains\n",
          result.document)

====

